---- MODULE Spec2Model ----
(***************************************************************************)
(* State-machine model of src/app.py: the lead-capture form                *)
(* (/home-evaluation), the blog listing and detail pages (/blog,           *)
(* /blog/<slug>) and the password-gated post editor (/admin/blog/new,      *)
(* /admin/blog/<id>/edit) over the two SQLite tables home_eval_leads and   *)
(* posts.                                                                  *)
(*                                                                         *)
(* Text is a sequence of one-character strings, so that str.strip(),       *)
(* slugify() and URL quoting are computed character by character.          *)
(* Markdown source and HTML are sequences of lexical tokens (a word, a     *)
(* tag, a comment, a blank).                                               *)
(***************************************************************************)
EXTENDS Integers, Sequences, FiniteSets, Bags, TLC

VARIABLES
    ADMIN_PASSWORD, \* module global of app.py, set at every import
    leads,          \* table home_eval_leads: sequence of rows, id = index
    posts,          \* table posts: sequence of rows, id = index
    clock,          \* the instant datetime.utcnow() returns
    inflight,       \* bag of requests about to run their INSERT or UPDATE
    request,        \* the request the last step worked on
    response        \* the response the last step returned, if any

vars == <<ADMIN_PASSWORD, leads, posts, clock, inflight, request, response>>

(***************************************************************************)
(* Bounds of the model.                                                    *)
(***************************************************************************)
MaxClock == 2
MaxLeads == 2
MaxPosts == 2
\* Requests served at once that have read the clock (and, for an edit, the
\* row) and have not yet run their INSERT or UPDATE.
MaxInflight == 2

(***************************************************************************)
(* Text helpers.                                                           *)
(***************************************************************************)
Whitespace == {" "}

RECURSIVE lstrip(_)
lstrip(s) ==
    IF s # <<>> /\ Head(s) \in Whitespace THEN lstrip(Tail(s)) ELSE s

RECURSIVE rstrip(_)
rstrip(s) ==
    IF s # <<>> /\ s[Len(s)] \in Whitespace
    THEN rstrip(SubSeq(s, 1, Len(s) - 1))
    ELSE s

\* str.strip(): whitespace removed from both ends, the inside kept.
strip(s) == rstrip(lstrip(s))

\* request.form.get(key, default)
FormGet(form, key, default) ==
    IF key \in DOMAIN form THEN form[key] ELSE default

(***************************************************************************)
(* URL building and parsing for the redirect to /schedule.                 *)
(***************************************************************************)
Unreserved == {"a", "b", "e", "x", "1", "-", "_", "."}

\* Percent-quoting of one character of a query value (quote_plus).
QuoteChar(c) ==
    CASE c \in Unreserved -> <<c>>
      [] c = " " -> <<"+">>
      [] c = "&" -> <<"%", "2", "6">>
      [] c = "=" -> <<"%", "3", "D">>
      [] c = "+" -> <<"%", "2", "B">>
      [] c = "%" -> <<"%", "2", "5">>

\* QuotePlus with the quoting forgotten.
QuotePlus_Raw(s) == s

RECURSIVE QuotePlus(_)
QuotePlus(s) ==
    IF s = <<>> THEN <<>> ELSE QuoteChar(Head(s)) \o QuotePlus(Tail(s))

\* url_for("schedule", name=..., email=...)
url_for_schedule(name, email) ==
    <<"/", "s", "c", "h", "e", "d", "u", "l", "e", "?">>
        \o <<"n", "a", "m", "e", "=">> \o QuotePlus(name)
        \o <<"&">>
        \o <<"e", "m", "a", "i", "l", "=">> \o QuotePlus(email)

Unhex(h) ==
    CASE h = <<"2", "6">> -> "&"
      [] h = <<"3", "D">> -> "="
      [] h = <<"2", "B">> -> "+"
      [] h = <<"2", "5">> -> "%"
      [] OTHER -> "?"

\* Decoding of a query value: "+" is a blank, %XY the character it names.
RECURSIVE UnquotePlus(_)
UnquotePlus(s) ==
    IF s = <<>> THEN <<>>
    ELSE IF Head(s) = "+" THEN <<" ">> \o UnquotePlus(Tail(s))
    ELSE IF Head(s) = "%" /\ Len(s) >= 3
         THEN <<Unhex(SubSeq(s, 2, 3))>> \o UnquotePlus(SubSeq(s, 4, Len(s)))
    ELSE <<Head(s)>> \o UnquotePlus(Tail(s))

\* The index of the first c in s from position i on, or Len(s) + 1.
RECURSIVE Find(_, _, _)
Find(s, c, i) ==
    IF i > Len(s) THEN Len(s) + 1
    ELSE IF s[i] = c THEN i
    ELSE Find(s, c, i + 1)

\* The pieces of s between occurrences of c.
RECURSIVE Split(_, _)
Split(s, c) ==
    LET k == Find(s, c, 1) IN
    IF k > Len(s) THEN <<s>>
    ELSE <<SubSeq(s, 1, k - 1)>> \o Split(SubSeq(s, k + 1, Len(s)), c)

\* request.args.get(key) or "" on the URL: the decoded value of the first
\* key=value pair of the query string whose key is `key`.
RECURSIVE PairGet(_, _)
PairGet(pairs, key) ==
    IF pairs = <<>> THEN <<>>
    ELSE LET p  == Head(pairs)
             eq == Find(p, "=", 1)
         IN IF UnquotePlus(SubSeq(p, 1, eq - 1)) = key
            THEN UnquotePlus(SubSeq(p, eq + 1, Len(p)))
            ELSE PairGet(Tail(pairs), key)

ArgsGet(url, key) ==
    LET q == Find(url, "?", 1) IN
    IF q > Len(url) THEN <<>>
    ELSE PairGet(Split(SubSeq(url, q + 1, Len(url)), "&"), key)

UrlPath(url) == SubSeq(url, 1, Find(url, "?", 1) - 1)

(***************************************************************************)
(* Responses.                                                              *)
(***************************************************************************)
\* form={} of the GET branches
EmptyForm == [k \in {} |-> <<>>]

NoResponse == [kind |-> "none"]
NoRequest == [route |-> "none"]

\* render_template(template, **ctx) after the flash() calls of the handler
Render(template, status, flashed, ctx) ==
    [kind |-> "render", template |-> template, status |-> status,
     flash |-> flashed, ctx |-> ctx]

\* redirect(location)
Redirect(location) == [kind |-> "redirect", location |-> location]

\* abort(404)
NotFound == [kind |-> "abort", status |-> 404]

\* An exception that leaves the handler: Flask answers 500.
ServerError(exc) == [kind |-> "error", status |-> 500, exc |-> exc]

(***************************************************************************)
(* Lead intake: /home-evaluation                                           *)
(***************************************************************************)
LeadFields ==
    {"full_name", "email", "phone", "address", "property_type",
     "timeframe", "notes"}

\* data = {...} of home_evaluation: every field read with "" as default
\* and stripped.
LeadData(form) == [k \in LeadFields |-> strip(FormGet(form, k, <<>>))]

\* LeadMissing with the address test forgotten.
LeadMissing_NoAddress(data) ==
    data["full_name"] = <<>> \/ data["email"] = <<>>

\* not data["full_name"] or not data["email"] or not data["address"]
LeadMissing(data) ==
    data["full_name"] = <<>> \/ data["email"] = <<>> \/ data["address"] = <<>>

\* The row the INSERT INTO home_eval_leads adds.
LeadRow(data, now) ==
    [id |-> Len(leads) + 1,
     full_name |-> data["full_name"], email |-> data["email"],
     phone |-> data["phone"], address |-> data["address"],
     property_type |-> data["property_type"],
     timeframe |-> data["timeframe"], notes |-> data["notes"],
     created_at |-> now]

\* home_evaluation up to its return or, for a complete form, up to the
\* INSERT: the data read and checked, datetime.utcnow() evaluated.
home_evaluation(method, form) ==
    /\ request' = [route |-> "home_evaluation", method |-> method, form |-> form]
    /\ leads' = leads
    /\ IF method = "POST"
       THEN LET data == LeadData(form) IN
            IF LeadMissing(data)
            THEN /\ response' = Render("home_evaluation.html", 200,
                                       <<"Name, email, and property address are required.">>,
                                       [form |-> data])
                 /\ inflight' = inflight
            ELSE /\ response' = NoResponse
                 /\ inflight' = inflight (+) SetToBag({
                        [route |-> "home_evaluation", form |-> form,
                         data |-> data, now |-> clock]})
       ELSE /\ response' = Render("home_evaluation.html", 200, <<>>,
                                  [form |-> EmptyForm])
            /\ inflight' = inflight
    /\ UNCHANGED <<ADMIN_PASSWORD, posts, clock>>

\* The rest of a complete lead POST: its INSERT statement and the redirect.
home_evaluation_insert(e) ==
    /\ e.route = "home_evaluation"
    /\ Len(leads) < MaxLeads
    /\ request' = [route |-> "home_evaluation", method |-> "POST",
                   form |-> e.form]
    /\ inflight' = inflight (-) SetToBag({e})
    /\ leads' = Append(leads, LeadRow(e.data, e.now))
    /\ response' = Redirect(url_for_schedule(e.data["full_name"],
                                             e.data["email"]))
    /\ UNCHANGED <<ADMIN_PASSWORD, posts, clock>>

\* The passing of time between the steps of the requests.
Tick ==
    /\ clock < MaxClock
    /\ clock' = clock + 1
    /\ request' = NoRequest
    /\ response' = NoResponse
    /\ UNCHANGED <<ADMIN_PASSWORD, leads, posts, inflight>>

(***************************************************************************)
(* Inputs of the lead form.                                                *)
(***************************************************************************)
\* A complete form whose name and email need quoting in a URL.
LeadComplete ==
    [full_name |-> <<" ", "a", " ", "b", " ">>,
     email |-> <<"a", "+", "b", ".", "e", " ">>,
     phone |-> <<" ", "1", "-", "1">>,
     address |-> <<"1", " ", "x", "=", "%">>,
     property_type |-> <<"x">>, timeframe |-> <<>>,
     notes |-> <<"x", " ", "x", " ">>]

\* Complete forms, forms with one required field blank or empty, and forms
\* in which fields are not sent at all.
LeadForms ==
    {LeadComplete,
     [LeadComplete EXCEPT !.full_name = <<" ">>],
     [LeadComplete EXCEPT !.email = <<" ", " ">>],
     [LeadComplete EXCEPT !.full_name = <<"a", "&", "b">>, !.address = <<>>],
     [email |-> <<"a", "+", "b", ".", "e", " ">>,
      address |-> <<"1", " ", "x", "=", "%">>],
     [full_name |-> <<"a", "&", "b">>, email |-> <<"e">>,
      address |-> <<"x">>]}

(***************************************************************************)
(* Slugs.  slugify(title): lower case, every run of characters other than  *)
(* letters and digits becomes one "-", and no "-" at either end.           *)
(***************************************************************************)
Lower(c) ==
    CASE c = "A" -> "a"
      [] c = "B" -> "b"
      [] OTHER -> c

SlugChars == {"a", "b", "1"}

\* One character of the slug before the hyphens are collapsed.
SlugChar(c) == IF Lower(c) \in SlugChars THEN Lower(c) ELSE "-"

RECURSIVE SlugMap(_)
SlugMap(s) ==
    IF s = <<>> THEN <<>> ELSE <<SlugChar(Head(s))>> \o SlugMap(Tail(s))

\* Runs of "-" collapsed to one.
RECURSIVE Collapse(_)
Collapse(s) ==
    IF Len(s) < 2 THEN s
    ELSE IF s[1] = "-" /\ s[2] = "-" THEN Collapse(Tail(s))
    ELSE <<Head(s)>> \o Collapse(Tail(s))

RECURSIVE StripHyphens(_)
StripHyphens(s) ==
    IF s # <<>> /\ Head(s) = "-" THEN StripHyphens(Tail(s))
    ELSE IF s # <<>> /\ s[Len(s)] = "-"
         THEN StripHyphens(SubSeq(s, 1, Len(s) - 1))
    ELSE s

slugify(title) == StripHyphens(Collapse(SlugMap(title)))

(***************************************************************************)
(* Markdown and sanitising.  A document is a sequence of tokens: a word,   *)
(* a blank, an HTML tag, an HTML comment.                                  *)
(***************************************************************************)
\* The tag tokens and the element each names.
TagName(tok) ==
    CASE tok \in {"<script>", "</script>"} -> "script"
      [] tok \in {"<b>", "</b>"} -> "b"
      [] tok \in {"<p>", "</p>"} -> "p"
      [] OTHER -> ""

IsTag(tok) == TagName(tok) # ""
IsComment(tok) == tok = "<!--c-->"

\* Elements Markdown treats as a raw HTML block and leaves outside a <p>.
BlockLevel == {"script", "p", "div", "pre", "table"}

\* md.markdown(text, extensions=[...]): a raw HTML block or comment is
\* passed through, any other paragraph is wrapped in <p>...</p> with its
\* inline HTML kept.
markdown(text) ==
    LET doc == strip(text) IN
    IF doc = <<>> THEN <<>>
    ELSE IF IsComment(Head(doc)) \/ TagName(Head(doc)) \in BlockLevel THEN doc
    ELSE <<"<p>">> \o doc \o <<"</p>">>

\* The allow-list with script let through.
allowed_tags_Script ==
    {"a", "abbr", "acronym", "b", "blockquote", "code", "em", "i", "li",
     "ol", "strong", "ul", "p", "img", "h1", "h2", "h3", "h4", "pre",
     "table", "thead", "tbody", "tr", "th", "td", "hr", "br", "script"}

\* bleach.sanitizer.ALLOWED_TAGS | {...}
allowed_tags ==
    {"a", "abbr", "acronym", "b", "blockquote", "code", "em", "i", "li",
     "ol", "strong", "ul"}
    \cup {"p", "img", "h1", "h2", "h3", "h4", "pre", "code", "table",
          "thead", "tbody", "tr", "th", "td", "hr", "br"}

\* The text a tag that is not allowed is turned into.
Escape(tok) ==
    CASE tok = "<script>" -> "&lt;script&gt;"
      [] tok = "</script>" -> "&lt;/script&gt;"
      [] tok = "<b>" -> "&lt;b&gt;"
      [] tok = "</b>" -> "&lt;/b&gt;"
      [] tok = "<p>" -> "&lt;p&gt;"
      [] tok = "</p>" -> "&lt;/p&gt;"
      [] OTHER -> tok

\* bleach.clean(html, tags=..., attributes=...): strip=False escapes a
\* tag that is not allowed, strip_comments=True drops comments.
RECURSIVE bleach_clean(_, _)
bleach_clean(html, tags) ==
    IF html = <<>> THEN <<>>
    ELSE LET tok == Head(html)
             rest == bleach_clean(Tail(html), tags)
         IN IF IsComment(tok) THEN rest
            ELSE IF IsTag(tok) /\ TagName(tok) \notin tags
                 THEN <<Escape(tok)>> \o rest
            ELSE <<tok>> \o rest

render_markdown(md_text) == bleach_clean(markdown(md_text), allowed_tags)

(***************************************************************************)
(* The posts table.                                                        *)
(***************************************************************************)
\* The posts table without the UNIQUE constraint on slug.
SlugTaken_Never(slug, id) == FALSE

\* slug TEXT NOT NULL UNIQUE: whether storing `slug` in row `id` (0 for a
\* new row) would give two rows the same slug.
SlugTaken(slug, id) ==
    \E i \in 1..Len(posts) : i # id /\ posts[i].slug = slug

PostIds == 1..Len(posts)

\* ADMIN_PASSWORD when the import of dotenv failed and the name was never
\* bound: check_admin then raises NameError.
Unset == <<"<", "u", "n", "s", "e", "t", ">">>

\* check_admin that lets every password through.
check_admin_Any(pw) == TRUE

\* check_admin(pw)
check_admin(pw) == pw = ADMIN_PASSWORD

\* published = 1 if request.form.get("published") == "on" else 0
PublishedOf(form) ==
    IF "published" \in DOMAIN form /\ form["published"] = <<"o", "n">>
    THEN 1 ELSE 0

\* The values both admin handlers compute from the form before writing.
PostValues(form, now) ==
    LET title == strip(FormGet(form, "title", <<>>))
        content_md == strip(FormGet(form, "content_md", <<>>))
    IN [title |-> title,
        slug |-> slugify(title),
        summary |-> strip(FormGet(form, "summary", <<>>)),
        content_md |-> content_md,
        content_html |-> render_markdown(content_md),
        cover_url |-> strip(FormGet(form, "cover_url", <<>>)),
        published |-> PublishedOf(form),
        now |-> now]

\* INSERT INTO posts (...) VALUES (...)
InsertedRow(v) ==
    [id |-> Len(posts) + 1, title |-> v.title, slug |-> v.slug,
     summary |-> v.summary, content_md |-> v.content_md,
     content_html |-> v.content_html, cover_url |-> v.cover_url,
     published |-> v.published, created_at |-> v.now, updated_at |-> v.now]

\* An UPDATE that leaves content_html as it was.
UpdatedRow_StaleHtml(row, v) ==
    [row EXCEPT !.title = v.title, !.slug = v.slug, !.summary = v.summary,
                !.content_md = v.content_md,
                !.cover_url = v.cover_url, !.published = v.published,
                !.updated_at = v.now]

\* An incremental UPDATE: an optional column is written only when the form
\* has a value for it.
UpdatedRow_Incremental(row, v) ==
    [row EXCEPT !.title = v.title, !.slug = v.slug,
                !.summary = IF v.summary = <<>> THEN @ ELSE v.summary,
                !.content_md = v.content_md,
                !.content_html = v.content_html,
                !.cover_url = IF v.cover_url = <<>> THEN @ ELSE v.cover_url,
                !.published = v.published,
                !.updated_at = v.now]

\* UPDATE posts SET title=?, slug=?, ... , updated_at=? WHERE id=?
UpdatedRow(row, v) ==
    [row EXCEPT !.title = v.title, !.slug = v.slug, !.summary = v.summary,
                !.content_md = v.content_md,
                !.content_html = v.content_html,
                !.cover_url = v.cover_url, !.published = v.published,
                !.updated_at = v.now]

\* url_for("blog_post", slug=slug)
url_for_blog_post(slug) == <<"/", "b", "l", "o", "g", "/">> \o slug

\* url_for("admin_blog_edit", post_id=id)
url_for_admin_blog_edit(id) == [endpoint |-> "admin_blog_edit", post_id |-> id]

(***************************************************************************)
(* Blog listing and detail.                                                *)
(***************************************************************************)
\* SELECT id, title, slug, summary, cover_url, created_at ... of blog_index
ListedColumns(row) ==
    [id |-> row.id, title |-> row.title, slug |-> row.slug,
     summary |-> row.summary, cover_url |-> row.cover_url,
     created_at |-> row.created_at]

\* WHERE published = 1
PublishedIds == {i \in PostIds : posts[i].published = 1}

\* Instants of the clock in one second.
TicksPerSecond == 2

\* datetime(created_at): the instant cut to its whole second.
SqlDatetime(t) == t \div TicksPerSecond

\* ORDER BY datetime(created_at) DESC: the published rows, descending in the
\* second of created_at; rows created in the same second stay in the order
\* of the table scan, ascending id (SQLite's sort keeps it).
Listings ==
    {s \in [1..Cardinality(PublishedIds) -> PublishedIds] :
        /\ \A i, j \in DOMAIN s : i # j => s[i] # s[j]
        /\ \A i, j \in DOMAIN s :
              i < j =>
                 \/ SqlDatetime(posts[s[i]].created_at)
                       > SqlDatetime(posts[s[j]].created_at)
                 \/ /\ SqlDatetime(posts[s[i]].created_at)
                          = SqlDatetime(posts[s[j]].created_at)
                    /\ s[i] < s[j]}

blog_index ==
    /\ request' = [route |-> "blog_index", method |-> "GET"]
    /\ \E s \in Listings :
          response' = Render("blog_index.html", 200, <<>>,
                             [posts |-> [i \in DOMAIN s |-> ListedColumns(posts[s[i]])]])
    /\ UNCHANGED <<ADMIN_PASSWORD, leads, posts, clock, inflight>>

\* The lookup of blog_post without "AND published = 1".
PublishedWithSlug_Any(slug) == {i \in PostIds : posts[i].slug = slug}

\* WHERE slug = ? AND published = 1 LIMIT 1
PublishedWithSlug(slug) ==
    {i \in PostIds : posts[i].slug = slug /\ posts[i].published = 1}

\* SELECT id, title, slug, summary, content_md, content_html, cover_url,
\* created_at ... of blog_post
DetailColumns(row) ==
    [id |-> row.id, title |-> row.title, slug |-> row.slug,
     summary |-> row.summary, content_md |-> row.content_md,
     content_html |-> row.content_html, cover_url |-> row.cover_url,
     created_at |-> row.created_at]

\* blog_post with the return statement outside the if: a page always.
BlogPostPage_Always(post) ==
    LET html == strip(post.content_html) IN
    Render("blog_post.html", 200, <<>>,
           [post |-> post,
            content_html |-> IF html = <<>> /\ post.content_md # <<>>
                             THEN render_markdown(post.content_md)
                             ELSE html,
            edit_url |-> url_for_admin_blog_edit(post.id)])

\* The part of blog_post after the row is found: a page on the fallback
\* path only; otherwise the function ends without a return statement and
\* Flask raises TypeError for the None it gets.
BlogPostPage(post) ==
    LET html == strip(post.content_html) IN
    IF html = <<>> /\ post.content_md # <<>>
    THEN Render("blog_post.html", 200, <<>>,
                [post |-> post,
                 content_html |-> render_markdown(post.content_md),
                 edit_url |-> url_for_admin_blog_edit(post.id)])
    ELSE ServerError("TypeError")

blog_post(slug) ==
    /\ request' = [route |-> "blog_post", method |-> "GET", slug |-> slug]
    /\ IF PublishedWithSlug(slug) = {}
       THEN response' = NotFound
       ELSE \E i \in PublishedWithSlug(slug) :
               response' = BlogPostPage(DetailColumns(posts[i]))
    /\ UNCHANGED <<ADMIN_PASSWORD, leads, posts, clock, inflight>>

(***************************************************************************)
(* Admin create and edit.                                                  *)
(***************************************************************************)
\* if not title or not content_md (admin_blog_new only)
PostMissing(v) == v.title = <<>> \/ v.content_md = <<>>

\* admin_blog_new up to its return or, for an authorised and complete
\* POST, up to the INSERT: the password and the fields checked, the values
\* computed, datetime.utcnow() read.
admin_blog_new(method, form) ==
    /\ request' = [route |-> "admin_blog_new", method |-> method, form |-> form]
    /\ posts' = posts
    /\ IF method = "GET"
       THEN /\ response' = Render("admin_post_edit.html", 200, <<>>,
                                  [form |-> EmptyForm, mode |-> "new"])
            /\ inflight' = inflight
       ELSE IF ADMIN_PASSWORD = Unset
       THEN /\ response' = ServerError("NameError")
            /\ inflight' = inflight
       ELSE IF ~check_admin(FormGet(form, "password", <<>>))
       THEN /\ response' = Render("admin_post_edit.html", 200,
                                  <<"Invalid admin password.">>,
                                  [form |-> form, mode |-> "new"])
            /\ inflight' = inflight
       ELSE LET v == PostValues(form, clock) IN
            IF PostMissing(v)
            THEN /\ response' = Render("admin_post_edit.html", 200,
                                       <<"Title and content are required.">>,
                                       [form |-> form, mode |-> "new"])
                 /\ inflight' = inflight
            ELSE /\ response' = NoResponse
                 /\ inflight' = inflight (+) SetToBag({
                        [route |-> "admin_blog_new", form |-> form,
                         values |-> v]})
    /\ UNCHANGED <<ADMIN_PASSWORD, leads, clock>>

\* The rest of an authorised create: its INSERT statement and the redirect.
admin_blog_new_insert(e) ==
    /\ e.route = "admin_blog_new"
    /\ request' = [route |-> "admin_blog_new", method |-> "POST",
                   form |-> e.form]
    /\ inflight' = inflight (-) SetToBag({e})
    /\ IF SlugTaken(e.values.slug, 0)
       THEN /\ posts' = posts
            /\ response' = ServerError("IntegrityError")
       ELSE /\ Len(posts) < MaxPosts
            /\ posts' = Append(posts, InsertedRow(e.values))
            /\ response' = Redirect(url_for_blog_post(e.values.slug))
    /\ UNCHANGED <<ADMIN_PASSWORD, leads, clock>>

\* admin_blog_edit up to its return or, for an authorised POST, up to the
\* UPDATE: the SELECT by id, the password check, the values computed,
\* datetime.utcnow() read.  The step stands at the clock read: rows are
\* never deleted, so the row the SELECT found is there at that instant too,
\* and nothing else of the row is used by an authorised POST.
admin_blog_edit(method, post_id, form) ==
    /\ request' = [route |-> "admin_blog_edit", method |-> method,
                   post_id |-> post_id, form |-> form]
    /\ posts' = posts
    /\ IF post_id \notin PostIds
       THEN /\ response' = Render("404.html", 404, <<>>, EmptyForm)
            /\ inflight' = inflight
       ELSE LET row == posts[post_id] IN
            IF method = "GET"
            THEN /\ response' = Render("admin_post_edit.html", 200, <<>>,
                                       [form |-> row, mode |-> "edit", post |-> row])
                 /\ inflight' = inflight
            ELSE IF ADMIN_PASSWORD = Unset
            THEN /\ response' = ServerError("NameError")
                 /\ inflight' = inflight
            ELSE IF ~check_admin(FormGet(form, "password", <<>>))
            THEN /\ response' = Render("admin_post_edit.html", 200,
                                       <<"Invalid admin password.">>,
                                       [form |-> form, mode |-> "edit", post |-> row])
                 /\ inflight' = inflight
            ELSE /\ response' = NoResponse
                 /\ inflight' = inflight (+) SetToBag({
                        [route |-> "admin_blog_edit", post_id |-> post_id,
                         form |-> form, values |-> PostValues(form, clock)]})
    /\ UNCHANGED <<ADMIN_PASSWORD, leads, clock>>

\* The rest of an authorised edit: its UPDATE statement and the redirect.
admin_blog_edit_update(e) ==
    /\ e.route = "admin_blog_edit"
    /\ request' = [route |-> "admin_blog_edit", method |-> "POST",
                   post_id |-> e.post_id, form |-> e.form]
    /\ inflight' = inflight (-) SetToBag({e})
    /\ IF SlugTaken(e.values.slug, e.post_id)
       THEN /\ posts' = posts
            /\ response' = ServerError("IntegrityError")
       ELSE /\ posts' = [posts EXCEPT ![e.post_id] = UpdatedRow(@, e.values)]
            /\ response' = Redirect(url_for_blog_post(e.values.slug))
    /\ UNCHANGED <<ADMIN_PASSWORD, leads, clock>>

(***************************************************************************)
(* Inputs of the admin form and of the public pages.                       *)
(***************************************************************************)
Changeme == <<"c", "h", "a", "n", "g", "e", "m", "e">>
On == <<"o", "n">>

MdPlain == <<"hi", " ", "<b>", "x", "</b>", " ">>
MdScript == <<"<script>", "x", "</script>">>
MdComment == <<" ", "<!--c-->">>

\* Published, Markdown with an allowed tag.
FormPlain ==
    [password |-> Changeme, title |-> <<"A", " ", "b">>,
     summary |-> <<"a", " ">>, content_md |-> MdPlain,
     cover_url |-> <<"x">>, published |-> On]

\* Not published (no "published" field), Markdown with a script tag, and a
\* title that gives the slug of FormPlain.
FormScript ==
    [password |-> Changeme, title |-> <<" ", "a", "-", "-", "b", "!">>,
     summary |-> <<>>, content_md |-> MdScript,
     cover_url |-> <<>>]

\* Published, Markdown that renders to nothing.
FormComment ==
    [password |-> Changeme, title |-> <<"b">>,
     summary |-> <<>>, content_md |-> MdComment,
     cover_url |-> <<>>, published |-> On]

\* Blank content, and "published" with a value other than "on".
FormBlank ==
    [password |-> Changeme, title |-> <<"b">>,
     summary |-> <<>>, content_md |-> <<" ">>,
     cover_url |-> <<>>, published |-> <<"1">>]

\* A password that is not the configured one.
FormWrong ==
    [password |-> <<"p", "w">>, title |-> <<"1">>,
     summary |-> <<>>, content_md |-> MdPlain,
     cover_url |-> <<>>, published |-> On]

\* The editor on its own.
AdminForms == {FormScript, FormBlank, FormWrong}

\* The editor next to the public pages: posts are created published and
\* are unpublished by an edit.
NewForms == {FormPlain, FormComment}
EditForms == {FormScript}

\* Two forms that differ in every field.
RaceForms ==
    {FormPlain,
     [password |-> Changeme, title |-> <<"b">>,
      summary |-> <<>>, content_md |-> MdScript,
      cover_url |-> <<>>]}

SlugInputs == {<<"a", "-", "b">>, <<"b">>}

\* The state once app.py is imported for the first time: ADMIN_PASSWORD is
\* bound to the environment's value or its default when the dotenv import
\* succeeds and left unbound when it fails; init_db() has created the two
\* tables, empty.  Every later import is a Restart.
Init ==
    /\ ADMIN_PASSWORD \in {Changeme, Unset}
    /\ leads = <<>>
    /\ posts = <<>>
    /\ clock = 0
    /\ inflight = EmptyBag
    /\ request = NoRequest
    /\ response = NoResponse

\* The process is started again: app.py is imported anew, the tables keep
\* their rows (CREATE TABLE IF NOT EXISTS) and the requests that were being
\* served are gone.
Restart ==
    /\ ADMIN_PASSWORD' \in {Changeme, Unset}
    /\ inflight' = EmptyBag
    /\ request' = NoRequest
    /\ response' = NoResponse
    /\ UNCHANGED <<leads, posts, clock>>

\* A GET carries no form; a POST carries one of the forms.
Requests(forms) == {<<"GET", EmptyForm>>} \cup {<<"POST", f>> : f \in forms}

\* The lead form: requests run concurrently, any request may start or go
\* on while others are between their clock read and their INSERT.
NextLead ==
    \/ \E r \in Requests(LeadForms) :
          /\ home_evaluation(r[1], r[2])
          /\ BagCardinality(inflight') <= MaxInflight
    \/ \E e \in BagToSet(inflight) : home_evaluation_insert(e)
    \/ Tick
    \/ Restart

SpecLead == Init /\ [][NextLead]_vars

\* The editor: requests run concurrently, any request may start or go on
\* while creates and edits are before their INSERT or UPDATE.
NextAdmin ==
    \/ \E r \in Requests(AdminForms) :
          /\ admin_blog_new(r[1], r[2])
          /\ BagCardinality(inflight') <= MaxInflight
    \/ \E r \in Requests(AdminForms), id \in 1..(Len(posts) + 1) :
          /\ admin_blog_edit(r[1], id, r[2])
          /\ BagCardinality(inflight') <= MaxInflight
    \/ \E e \in BagToSet(inflight) : admin_blog_new_insert(e)
    \/ \E e \in BagToSet(inflight) : admin_blog_edit_update(e)
    \/ Tick
    \/ Restart

SpecAdmin == Init /\ [][NextAdmin]_vars

\* The public pages of the blog next to the editor, all running
\* concurrently.
NextBlog ==
    \/ \E r \in Requests(NewForms) :
          /\ admin_blog_new(r[1], r[2])
          /\ BagCardinality(inflight') <= MaxInflight
    \/ \E r \in Requests(EditForms), id \in 1..(Len(posts) + 1) :
          /\ admin_blog_edit(r[1], id, r[2])
          /\ BagCardinality(inflight') <= MaxInflight
    \/ blog_index
    \/ \E slug \in SlugInputs : blog_post(slug)
    \/ \E e \in BagToSet(inflight) : admin_blog_new_insert(e)
    \/ \E e \in BagToSet(inflight) : admin_blog_edit_update(e)
    \/ Tick
    \/ Restart

SpecBlog == Init /\ [][NextBlog]_vars

\* The editor alone, with forms that differ in every field.
NextRace ==
    \/ \E f \in RaceForms :
          /\ admin_blog_new("POST", f)
          /\ BagCardinality(inflight') <= MaxInflight
    \/ \E id \in PostIds, f \in RaceForms :
          /\ admin_blog_edit("POST", id, f)
          /\ BagCardinality(inflight') <= MaxInflight
    \/ \E e \in BagToSet(inflight) : admin_blog_new_insert(e)
    \/ \E e \in BagToSet(inflight) : admin_blog_edit_update(e)
    \/ Tick
    \/ Restart

SpecRace == Init /\ [][NextRace]_vars

(***************************************************************************)
(* Properties.                                                             *)
(***************************************************************************)
\* s consists of whitespace only (it is empty after trimming).
IsBlank(s) == \A i \in 1..Len(s) : s[i] \in Whitespace

\* t is s with the whitespace at both ends removed, stated without strip().
IsTrimOf(t, s) ==
    /\ \E i, j \in 0..Len(s) :
          /\ i + Len(t) + j = Len(s)
          /\ IsBlank(SubSeq(s, 1, i))
          /\ SubSeq(s, i + 1, i + Len(t)) = t
          /\ IsBlank(SubSeq(s, i + Len(t) + 1, Len(s)))
    /\ t # <<>> => t[1] \notin Whitespace /\ t[Len(t)] \notin Whitespace

RequiredLeadFields == {"full_name", "email", "address"}

IsLeadPost(req) == req.route = "home_evaluation" /\ req.method = "POST"

\* A POST to /home-evaluation with a required field empty after trimming.
BlankLeadPost(req) ==
    /\ IsLeadPost(req)
    /\ \E k \in RequiredLeadFields : IsBlank(FormGet(req.form, k, <<>>))

\* A POST to /home-evaluation with every required field present.
ValidLeadPost(req) ==
    /\ IsLeadPost(req)
    /\ \A k \in RequiredLeadFields : ~IsBlank(FormGet(req.form, k, <<>>))

\* C1: a POST to /home-evaluation in which full_name, email or address is
\* empty after trimming inserts no row (the leads table is unchanged) and
\* is answered with the lead form holding the submitted values, trimmed,
\* and an error message; it is not a redirect.
C1_BlankLeadNotStored ==
    [][BlankLeadPost(request') =>
          /\ leads' = leads
          /\ response'.kind = "render"
          /\ response'.template = "home_evaluation.html"
          /\ response'.flash # <<>>
          /\ \A k \in LeadFields :
                IsTrimOf(response'.ctx.form[k], FormGet(request'.form, k, <<>>))
      ]_vars

\* C1 witness: the form comes back for a POST that has a name and an email
\* but a blank address, with a row already in the table.
C1_Witness ==
    /\ BlankLeadPost(request)
    /\ ~IsBlank(FormGet(request.form, "full_name", <<>>))
    /\ ~IsBlank(FormGet(request.form, "email", <<>>))
    /\ response.kind = "render"
    /\ Len(leads) = 1

\* C2: a POST to /home-evaluation with full_name, email and address all
\* non-empty after trimming adds exactly one row, holding the trimmed
\* submitted values, leaves the earlier rows as they were, and redirects to
\* /schedule with name and email query parameters that decode to the stored
\* full_name and email.
C2_ValidLeadStoredOnce ==
    [][ValidLeadPost(request') =>
          IF response'.kind = "none" THEN leads' = leads ELSE
          /\ Len(leads') = Len(leads) + 1
          /\ SubSeq(leads', 1, Len(leads)) = leads
          /\ \A k \in LeadFields :
                IsTrimOf(leads'[Len(leads')][k], FormGet(request'.form, k, <<>>))
          /\ response'.kind = "redirect"
          /\ UrlPath(response'.location) = <<"/", "s", "c", "h", "e", "d", "u", "l", "e">>
          /\ ArgsGet(response'.location, <<"n", "a", "m", "e">>)
                = leads'[Len(leads')].full_name
          /\ ArgsGet(response'.location, <<"e", "m", "a", "i", "l">>)
                = leads'[Len(leads')].email
      ]_vars

\* C2 witness: a second lead was stored and redirected, with a name and an
\* email that need quoting in the URL.
C2_Witness ==
    /\ ValidLeadPost(request)
    /\ response.kind = "redirect"
    /\ Len(leads) = 2
    /\ leads[2].full_name = <<"a", "&", "b">>
    /\ leads[2].email = <<"e">>
    /\ leads[1].full_name = <<"a", " ", "b">>
    /\ leads[1].email = <<"a", "+", "b", ".", "e">>

IsAdminPost(req) ==
    req.route \in {"admin_blog_new", "admin_blog_edit"} /\ req.method = "POST"

\* A POST to either admin route whose password is not the configured one.
WrongPasswordPost(req) ==
    /\ IsAdminPost(req)
    /\ ADMIN_PASSWORD # Unset
    /\ FormGet(req.form, "password", <<>>) # ADMIN_PASSWORD

\* A POST to either admin route with the configured password, at the step
\* in which its handler returns.
AuthorisedPostReturns(req, resp) ==
    /\ IsAdminPost(req)
    /\ ADMIN_PASSWORD # Unset
    /\ FormGet(req.form, "password", <<>>) = ADMIN_PASSWORD
    /\ resp.kind # "none"

\* The edit form with the message of a rejected password.
IsPasswordError(resp) ==
    /\ resp.kind = "render"
    /\ resp.template = "admin_post_edit.html"
    /\ resp.flash = <<"Invalid admin password.">>

\* C3 as stated: every POST to /admin/blog/new or /admin/blog/<id>/edit
\* with a password other than the configured one leaves the posts table as
\* it was and is answered with the edit form and an error message.
C3_Original ==
    [][WrongPasswordPost(request') =>
          posts' = posts /\ IsPasswordError(response')]_vars

\* C3 amended: such a POST leaves the posts table as it was; it is answered
\* with the edit form and an error message when it goes to /admin/blog/new
\* or to /admin/blog/<id>/edit for the id of an existing post, and with the
\* 404 page when no post has that id.
C3_WrongPasswordNoChange ==
    [][WrongPasswordPost(request') =>
          /\ posts' = posts
          /\ IF request'.route = "admin_blog_edit"
                /\ request'.post_id \notin 1..Len(posts)
             THEN response'.kind = "render" /\ response'.status = 404
             ELSE /\ IsPasswordError(response')
                  /\ response'.ctx.form = request'.form
      ]_vars

\* C3 witness: an edit of an existing post with a wrong password got the
\* form back.
C3_Witness ==
    /\ WrongPasswordPost(request)
    /\ request.route = "admin_blog_edit"
    /\ request.post_id \in PostIds
    /\ IsPasswordError(response)

\* C4: a post with published = 0 is not in the listing /blog returns, and
\* GET /blog/<slug> for its slug answers not-found, in every reachable
\* state of the posts table, also after an edit unpublished it.
C4_UnpublishedHidden ==
    [][/\ request'.route = "blog_index" =>
             \A k \in DOMAIN response'.ctx.posts :
                posts'[response'.ctx.posts[k].id].published = 1
       /\ (/\ request'.route = "blog_post"
           /\ \E i \in 1..Len(posts') :
                 posts'[i].slug = request'.slug /\ posts'[i].published = 0)
          => response' = NotFound
      ]_vars

\* C4 witness: not-found for the slug of a post that an edit has left
\* unpublished.
C4_Witness ==
    /\ request.route = "blog_post"
    /\ response = NotFound
    /\ \E i \in PostIds :
          /\ posts[i].slug = request.slug
          /\ posts[i].published = 0
          /\ posts[i].updated_at > posts[i].created_at

UniqueSlugs ==
    \A i, j \in PostIds : i # j => posts[i].slug # posts[j].slug

\* An authorised create that reaches its INSERT, or an authorised edit at
\* its UPDATE, whose title gives the slug of another existing post.
CollidingWrite(req, resp) ==
    /\ AuthorisedPostReturns(req, resp)
    /\ LET title == strip(FormGet(req.form, "title", <<>>)) IN
       IF req.route = "admin_blog_new"
       THEN /\ title # <<>>
            /\ ~IsBlank(FormGet(req.form, "content_md", <<>>))
            /\ \E i \in PostIds : posts[i].slug = slugify(title)
       ELSE /\ req.post_id \in PostIds
            /\ \E i \in PostIds :
                  i # req.post_id /\ posts[i].slug = slugify(title)

\* C5: no two rows of the posts table ever have the same slug; a create
\* that reaches its INSERT, or an edit of another post, whose title gives
\* the slug of an existing post fails on the UNIQUE constraint and leaves
\* every row as it was.
C5_SlugUnique ==
    /\ []UniqueSlugs
    /\ [][CollidingWrite(request', response') =>
             /\ posts' = posts
             /\ response' = ServerError("IntegrityError")]_vars

\* C5 witness: an edit was refused for the slug of the other post.
C5_Witness ==
    /\ request.route = "admin_blog_edit"
    /\ response = ServerError("IntegrityError")
    /\ Len(posts) = 2

\* C6: an authorised POST to /admin/blog/new or /admin/blog/<id>/edit with
\* title or content_md empty after trimming is a validation failure: the
\* posts table is unchanged and the form comes back with a message and the
\* input, for the edit handler as for the create handler.
C6_Original ==
    [][(/\ AuthorisedPostReturns(request', response')
        /\ request'.route = "admin_blog_edit" => request'.post_id \in PostIds
        /\ \/ IsBlank(FormGet(request'.form, "title", <<>>))
           \/ IsBlank(FormGet(request'.form, "content_md", <<>>)))
       => /\ posts' = posts
          /\ response'.kind = "render"
          /\ response'.template = "admin_post_edit.html"
          /\ response'.flash # <<>>
          /\ response'.ctx.form = request'.form
      ]_vars

HasScriptTag(doc) == \E k \in 1..Len(doc) : TagName(doc[k]) = "script"

\* C7: for every stored post whose content_md contains a script tag, the
\* stored content_html contains no script tag.
C7_NoScriptStored ==
    \A i \in PostIds :
        HasScriptTag(posts[i].content_md) => ~HasScriptTag(posts[i].content_html)

\* C7 witness: a stored post whose Markdown has a script tag and whose HTML
\* has it as escaped text.
C7_Witness ==
    \E i \in PostIds :
        /\ HasScriptTag(posts[i].content_md)
        /\ \E k \in 1..Len(posts[i].content_html) :
              posts[i].content_html[k] = "&lt;script&gt;"

\* C8: GET /blog/<slug> for an existing published post produces a page
\* only on the fallback path (stored content_html empty after trimming and
\* content_md non-empty); with content_html populated the handler returns
\* nothing and no page is served.
C8_PageOnlyOnFallback ==
    [][(/\ request'.route = "blog_post"
        /\ \E i \in 1..Len(posts') :
              posts'[i].slug = request'.slug /\ posts'[i].published = 1)
       => LET i == CHOOSE i \in 1..Len(posts') :
                      posts'[i].slug = request'.slug /\ posts'[i].published = 1
              fallback == /\ IsBlank(posts'[i].content_html)
                          /\ posts'[i].content_md # <<>>
          IN /\ fallback <=> response'.kind = "render"
             /\ ~fallback => response' = ServerError("TypeError")
      ]_vars

\* C8 witness: no page for a published post whose stored HTML is not empty.
C8_Witness ==
    /\ request.route = "blog_post"
    /\ response = ServerError("TypeError")
    /\ \E i \in PostIds :
          /\ posts[i].slug = request.slug
          /\ posts[i].published = 1
          /\ posts[i].content_html # <<>>

\* C9: every row of the posts table has content_html =
\* render_markdown(content_md) for its own content_md, after any creates
\* and edits.
C9_HtmlFollowsMarkdown ==
    \A i \in PostIds :
        posts[i].content_html = render_markdown(posts[i].content_md)

\* C9 witness: a post whose content was replaced by an edit, with
\* non-empty HTML.
C9_Witness ==
    \E i \in PostIds :
        /\ posts[i].updated_at > posts[i].created_at
        /\ posts[i].content_md = MdScript
        /\ posts[i].title = <<"a", "-", "-", "b", "!">>
        /\ posts[i].content_html # <<>>
        /\ request.route = "admin_blog_edit"
        /\ request.form["content_md"] = MdScript
        /\ response.kind = "redirect"

\* An authorised POST to /admin/blog/<id>/edit at the step of its UPDATE.
EditUpdateStep(req, resp) ==
    /\ AuthorisedPostReturns(req, resp)
    /\ req.route = "admin_blog_edit"
    /\ req.post_id \in PostIds

\* The row holds the complete field set the form gives: title, slug,
\* summary, content_md, content_html, cover_url and published.
HoldsFieldsOf(row, form) ==
    /\ IsTrimOf(row.title, FormGet(form, "title", <<>>))
    /\ row.slug = slugify(row.title)
    /\ IsTrimOf(row.summary, FormGet(form, "summary", <<>>))
    /\ IsTrimOf(row.content_md, FormGet(form, "content_md", <<>>))
    /\ row.content_html = render_markdown(row.content_md)
    /\ IsTrimOf(row.cover_url, FormGet(form, "cover_url", <<>>))
    /\ row.published = IF FormGet(form, "published", <<>>) = On THEN 1 ELSE 0

\* Another edit of the same post has done its SELECT and not yet its UPDATE.
OtherEditInFlight(req, pending) ==
    \E e \in BagToSet(pending) :
        /\ e.route = "admin_blog_edit"
        /\ e.post_id = req.post_id
        /\ e.form # req.form

\* The UPDATE of the request has taken effect in full: the row holds the
\* field set of the request, id and created_at are as before and no other
\* row has changed.
FullOverwrite(req) ==
    /\ Len(posts') = Len(posts)
    /\ HoldsFieldsOf(posts'[req.post_id], req.form)
    /\ posts'[req.post_id].id = posts[req.post_id].id
    /\ posts'[req.post_id].created_at = posts[req.post_id].created_at
    /\ \A i \in PostIds : i # req.post_id => posts'[i] = posts[i]

\* C10 as stated: of two authorised edits of the same post that overlap,
\* each succeeds, and after its UPDATE the row holds the complete field set
\* of that UPDATE, id and created_at unchanged.
C10_Original ==
    [][(/\ EditUpdateStep(request', response')
        /\ OtherEditInFlight(request', inflight'))
       => response'.kind = "redirect" /\ FullOverwrite(request')
      ]_vars

\* C10 amended: an authorised edit's UPDATE, whatever other edits of the
\* same post have read or written since its SELECT, succeeds with no
\* conflict detected unless its slug is held by another post; when it
\* succeeds the row holds the complete field set of that UPDATE, never a
\* mixture, with id and created_at unchanged, so the last successful UPDATE
\* wins; when its slug is held by another post it fails on the UNIQUE
\* constraint and changes nothing.
C10_LastWriteWins ==
    [][EditUpdateStep(request', response') =>
          IF \E i \in PostIds :
                /\ i # request'.post_id
                /\ posts[i].slug
                      = slugify(strip(FormGet(request'.form, "title", <<>>)))
          THEN posts' = posts /\ response' = ServerError("IntegrityError")
          ELSE response'.kind = "redirect" /\ FullOverwrite(request')
      ]_vars

\* C10 witness: an edit has just overwritten a post while a different edit
\* of the same post, which has already read the row, is still to write.
C10_Witness ==
    /\ request.route = "admin_blog_edit"
    /\ response.kind = "redirect"
    /\ OtherEditInFlight(request, inflight)
    /\ HoldsFieldsOf(posts[request.post_id], request.form)
====
